---- MODULE Spec2Model ----
(***************************************************************************)
(* Model of the anna IRC relay bot (src/src/main.rs): the per-channel      *)
(* context store (MessageMap), the event loop of main and the completion   *)
(* tasks it spawns.                                                        *)
(*                                                                         *)
(* Time is counted in ticks, TicksPerHour ticks to the hour, so that ages  *)
(* between whole hours exist.  Fields named line, k, of, seq, sdate, simgs and *)
(* the variables readAt, trimAt are history (ghost) values: the code does  *)
(* not store them, the properties read them.                               *)
(*                                                                         *)
(* get_chat_instruction and insert_usermsg are also modelled on their own, *)
(* on lines of characters: arg holds the input of one call and ret its     *)
(* result (SpecParse, SpecExtract).                                        *)
(***************************************************************************)
EXTENDS Integers, Sequences, FiniteSets, TLC

\* ---------------------------------------------------------------- bounds
MaxLines == 2
MaxAdvances == 1
TicksPerHour == 2
MaxOpts == 2
MaxWords == 2
MaxReplyLines == 8

\* ------------------------------------------------------ program constants
MaxAgeHours == 48
ImageAgeHours == 1
\* send_possibly_long_message: the length that counts as one more line, and
\* the count at which it stops sending lines
LineUnit == 150
LineBudget == 8

BOTNAME == "Charbot9000"
OPT_IN_ALL_CAPTURE == {"achin", "GizmoBot"}
BOTS_TO_IGNORE == {"GizmoBot"}

\* main.rs 705: the only sender whose quit, join and part are obeyed
Owner == "achin"

\* TEMPERATURE.store(1.0) at startup; temperatures are counted in tenths
InitialTemp == 10
MinTemp == 0
MaxTemp == 20

\* ------------------------------------------------------------ input sets
Nicks == {"achin", "bob", "GizmoBot"}
Channels == {"#a"}
Targets == Channels \cup {BOTNAME}

\* message bodies: "" empty, "t" plain words, "u" words with one https:// token

\* clock advances: one hour, 48 hours and a tick, 49 hours
Jumps == {ImageAgeHours * TicksPerHour, MaxAgeHours * TicksPerHour + 1,
          (MaxAgeHours + 1) * TicksPerHour}

VARIABLES now, advances, inner, files, lock, poisoned, n, cur, pc, for_chat,
          readAt, trimAt, tasks, sent, nseq, TEMPERATURE, arg, ret

vars == <<now, advances, inner, files, lock, poisoned, n, cur, pc, for_chat,
          readAt, trimAt, tasks, sent, nseq, TEMPERATURE, arg, ret>>

\* ------------------------------------------------------------- helpers
starts_with_hash(t) == t \in Channels

\* irc::Message::response_target: the channel, or the sender for a query
response_target(target, nick) == IF starts_with_hash(target) THEN target ELSE nick

\* chrono::Duration::num_hours: whole hours, truncated
num_hours(d) == d \div TicksPerHour

HasUrl(body) == body = "u"

\* ChatInstruction as produced by get_chat_instruction
Inst(msg, context, save, pastebin, tts) ==
    [msg |-> msg, context |-> context, save |-> save, pastebin |-> pastebin, tts |-> tts]

NoInst == Inst("", TRUE, TRUE, FALSE, FALSE)

Insts ==
    { Inst("t", c, s, FALSE, FALSE) : c \in BOOLEAN, s \in BOOLEAN }
    \cup { Inst("u", TRUE, TRUE, FALSE, FALSE),
           Inst("u", TRUE, FALSE, FALSE, FALSE),
           Inst("", TRUE, TRUE, FALSE, FALSE),
           Inst("t", TRUE, TRUE, TRUE, FALSE),
           Inst("t", TRUE, FALSE, FALSE, TRUE) }

Line(kind, target, nick, body, inst) ==
    [kind |-> kind, target |-> target, nick |-> nick, body |-> body, inst |-> inst]

\* the lines of the runs: directives of every save/context combination on a
\* channel, one in a private query, a captured line with a URL, a clear
Lines ==
    { Line("chat", "#a", "bob", i.msg, i) :
        i \in { Inst("t", TRUE, TRUE, FALSE, FALSE), Inst("t", FALSE, TRUE, FALSE, FALSE),
                Inst("u", TRUE, FALSE, FALSE, TRUE), Inst("t", FALSE, FALSE, FALSE, FALSE) } }
    \cup { Line("chat", BOTNAME, "bob", "t", Inst("t", TRUE, TRUE, TRUE, FALSE)),
           Line("plain", "#a", "achin", "u", NoInst),
           Line("clearctx", "#a", "bob", "t", NoInst) }

\* ChatMessageThing::new_now around a user message built by extract_image_urls
UserTurn(line, body, img, t, seq) ==
    [date |-> t, role |-> "user",
     kind |-> IF HasUrl(body) THEN "array" ELSE "text",
     imgs |-> IF HasUrl(body) /\ img THEN 1 ELSE 0,
     line |-> line, k |-> 0, of |-> 0, seq |-> seq]

extract_image_urls(line, body, img, t, seq) == << UserTurn(line, body, img, t, seq) >>

\* response messages of the completion service
RMsg(role, content, calls) == [role |-> role, content |-> content, calls |-> calls]

Responses ==
    { << RMsg("assistant", TRUE, FALSE) >>,
      << RMsg("assistant", FALSE, TRUE), RMsg("tool", TRUE, TRUE), RMsg("assistant", TRUE, FALSE) >>,
      << RMsg("assistant", TRUE, FALSE), RMsg("tool", FALSE, FALSE) >> }

\* reponse_msg_to_request_msg panics on a missing field it unwraps
ConvertPanics(m) ==
    CASE m.role = "assistant" -> FALSE
      [] m.role = "tool" -> ~m.content \/ ~m.calls
      [] m.role \in {"system", "user"} -> ~m.content
      [] OTHER -> ~m.calls

AgentTurn(line, k, of, m, t, seq) ==
    [date |-> t, role |-> m.role, kind |-> "text", imgs |-> 0,
     line |-> line, k |-> k, of |-> of, seq |-> seq]

\* a trim that stamps the Turns it keeps
RECURSIVE trim_restamping(_, _)
trim_restamping(v, t) ==
    IF v # << >> /\ num_hours(t - Head(v).date) > MaxAgeHours
    THEN trim_restamping(Tail(v), t)
    ELSE [i \in 1..Len(v) |-> [v[i] EXCEPT !.date = t]]

RECURSIVE trim_message_for_age_and_contextsize(_, _)
trim_message_for_age_and_contextsize(v, t) ==
    IF v # << >> /\ num_hours(t - Head(v).date) > MaxAgeHours
    THEN trim_message_for_age_and_contextsize(Tail(v), t)
    ELSE v

\* the ChatCompletionRequestMessage of a stored entry, with imgs image parts
RequestMsg(cmt, imgs) ==
    [role |-> cmt.role, kind |-> cmt.kind, imgs |-> imgs,
     line |-> cmt.line, k |-> cmt.k, of |-> cmt.of, seq |-> cmt.seq,
     sdate |-> cmt.date, simgs |-> cmt.imgs]

\* ChatMessageThing::get_for_api
get_for_api(cmt, t) ==
    IF t - cmt.date < ImageAgeHours * TicksPerHour
    THEN RequestMsg(cmt, cmt.imgs)
    ELSE IF cmt.role = "user" /\ cmt.kind = "array"
         THEN RequestMsg(cmt, 0)
         ELSE RequestMsg(cmt, cmt.imgs)

FirstOnly(list) == IF list = << >> THEN << >> ELSE << list[1] >>

\* get_chat_messages, main.rs 431-433: list.back()
LastOnly(list) == IF list = << >> THEN << >> ELSE << list[Len(list)] >>

get_chat_messages(map, channel, all_context, t) ==
    IF channel \in DOMAIN map
    THEN LET list == IF all_context THEN map[channel] ELSE LastOnly(map[channel])
         IN  [i \in 1..Len(list) |-> get_for_api(list[i], t)]
    ELSE << >>

\* the entry for channel, created empty when absent
WithEntry(map, channel) ==
    IF channel \in DOMAIN map THEN map
    ELSE [c \in DOMAIN map \cup {channel} |-> IF c = channel THEN << >> ELSE map[c]]

ClearAll(map, channel) == [c \in DOMAIN map |-> << >>]

\* MessageMap::clear_chat_message
clear_chat_message(map, channel) ==
    IF channel \in DOMAIN map THEN [map EXCEPT ![channel] = << >>] ELSE map

\* std::sync::Mutex: who holds the guard
Free == [by |-> "none", id |-> 0]
ByMain == [by |-> "main", id |-> 0]
ByTask(t) == [by |-> "task", id |-> t]

LockIgnored == TRUE

\* Mutex::lock returns only when nobody holds the guard
LockFree == lock = Free

NoTask ==
    [pc |-> "none", inst |-> NoInst, target |-> "", resp_target |-> "", nick |-> "",
     for_chat |-> << >>, resp |-> << >>, i |-> 0, at |-> 0, calls |-> 0, outcome |-> "none"]

\* messages sent to the transport on behalf of one line
Privmsg(to, kind) == [to |-> to, kind |-> kind]


\* the process runs until main panics or leaves its loop
Running == pc \notin {"crashed", "quit"}

\* no call of a pure function is under study
NoArg == [fn |-> "none"]
NoRet == [fn |-> "none"]

\* the event loop before its first line
Idle ==
    /\ now = 0
    /\ advances = 0
    /\ inner = << >>
    /\ files = << >>
    /\ lock = Free
    /\ poisoned = FALSE
    /\ n = 0
    /\ cur = Line("plain", BOTNAME, "bob", "t", NoInst)
    /\ pc = "recv"
    /\ for_chat = << >>
    /\ readAt = 0
    /\ trimAt = 0
    /\ tasks = << >>
    /\ sent = << >>
    /\ nseq = 0
    /\ TEMPERATURE = InitialTemp

Init ==
    /\ Idle
    /\ arg = NoArg
    /\ ret = NoRet

AdvanceClock ==
    /\ Running
    /\ advances < MaxAdvances
    /\ \E d \in Jumps : now' = now + d
    /\ advances' = advances + 1
    /\ UNCHANGED <<TEMPERATURE, arg, ret, inner, files, lock, poisoned, n, cur, pc, for_chat,
                   readAt, trimAt, tasks, sent, nseq>>

\* -------------------------------------------------------------- event loop
\* main.rs 862-867: passive capture of a line that was not consumed
Captures(l) == starts_with_hash(l.target) /\ l.nick \in OPT_IN_ALL_CAPTURE

\* an insert that puts the message at the front of the log
PushUserFront(img) ==
    /\ inner' = [WithEntry(inner, cur.target) EXCEPT ![cur.target] =
                    trim_message_for_age_and_contextsize(
                        extract_image_urls(n, cur.body, img, now, nseq + 1)
                            \o WithEntry(inner, cur.target)[cur.target],
                        now)]
    /\ nseq' = nseq + 1
    /\ trimAt' = now
    /\ pc' = "um_write"

\* insert_usermsg after the lock is taken and the probes are answered:
\* extend, trim; the file write is still to come
PushUser(img) ==
    /\ inner' = [WithEntry(inner, cur.target) EXCEPT ![cur.target] =
                    trim_message_for_age_and_contextsize(
                        WithEntry(inner, cur.target)[cur.target]
                            \o extract_image_urls(n, cur.body, img, now, nseq + 1),
                        now)]
    /\ nseq' = nseq + 1
    /\ trimAt' = now
    /\ pc' = "um_write"

\* main.rs 699: BOTS_TO_IGNORE.contains(&source_nick)
IgnoredNever(l) == FALSE

Ignored(l) == l.nick \in BOTS_TO_IGNORE

\* a test of the sender that every sender passes
FromAnyone(l) == TRUE

\* main.rs 705: "achin" == source_nick
FromOwner(l) == l.nick = Owner

\* main.rs 705-744: the commands that are answered at once; quit, join and
\* part only from the owner
Admin(l) ==
    \/ FromOwner(l) /\ l.kind \in {"quit", "join", "part"}
    \/ l.kind \in {"echo", "set_temp", "get_temp"}

AfterAdminCapture(l) == IF Captures(l) THEN "um_lock" ELSE "recv"

\* main.rs 711, 715, 721, 738, 744: continue
AfterAdmin(l) == "recv"

\* str::parse::<f32> of the text after "!set_temp ", in tenths
ParseF32(body) ==
    CASE body = "0.5" -> [ok |-> TRUE, finite |-> TRUE, v |-> 5]
      [] body = "55" -> [ok |-> TRUE, finite |-> TRUE, v |-> 550]
      [] body = "-1" -> [ok |-> TRUE, finite |-> TRUE, v |-> -10]
      [] body = "inf" -> [ok |-> TRUE, finite |-> FALSE, v |-> 0]
      [] OTHER -> [ok |-> FALSE, finite |-> FALSE, v |-> 0]

noclamp(v) == v

\* f32::clamp(0.0, 2.0)
clamp(v) == IF v < MinTemp THEN MinTemp ELSE IF v > MaxTemp THEN MaxTemp ELSE v

\* main.rs 722-738: the temperature after a line
TempAfter(l, temp) ==
    IF ~Ignored(l) /\ l.kind = "set_temp" /\ ParseF32(l.body).ok /\ ParseF32(l.body).finite
    THEN clamp(ParseF32(l.body).v)
    ELSE temp

\* main.rs 706-744, 871: what the loop itself sends while it classifies a line
AdminSent(l) ==
    IF l.kind = "error" THEN << Privmsg("", "quit") >>
    ELSE IF Ignored(l) THEN << >>
    ELSE IF FromOwner(l) /\ l.kind = "quit" THEN << Privmsg("", "quit") >>
    ELSE IF FromOwner(l) /\ l.kind \in {"join", "part"} THEN << Privmsg(l.body, l.kind) >>
    ELSE CASE l.kind = "echo" -> << Privmsg(response_target(l.target, l.nick), "echo") >>
           [] l.kind = "set_temp" ->
                << Privmsg(response_target(l.target, l.nick),
                           IF ~ParseF32(l.body).ok THEN "parse_failed"
                           ELSE IF ParseF32(l.body).finite THEN "temp_set" ELSE "what") >>
           [] l.kind = "get_temp" -> << Privmsg(response_target(l.target, l.nick), "temp") >>
           [] OTHER -> << >>

\* main.rs 745-796, 829-853: the task spawned for !tts, !translate,
\* !transcribe or !img
AuxTask(l) ==
    [NoTask EXCEPT !.pc = "aux_calling", !.target = l.target,
                   !.resp_target = response_target(l.target, l.nick), !.nick = l.nick]

Spawned(l) ==
    IF ~Ignored(l) /\ ~Admin(l) /\ l.kind \in {"tts", "img"} THEN AuxTask(l) ELSE NoTask

AfterBreakContinue == "recv"

\* main.rs 693, 707: break leaves the loop for send_quit
AfterBreak == "quit"

\* main.rs 692-868: where the loop goes after it has classified an event; an
\* ERROR frame, kind "error", has no sender and no target
NextPc(l) ==
    IF l.kind = "error" THEN AfterBreak
    ELSE IF Ignored(l) THEN "recv"
    ELSE IF FromOwner(l) /\ l.kind = "quit" THEN AfterBreak
    ELSE IF Admin(l) THEN AfterAdmin(l)
    ELSE CASE l.kind = "chat" ->
                IF l.inst.save /\ l.inst.msg # "" THEN "um_lock" ELSE "read"
           [] l.kind = "img" -> "recv"
           [] l.kind = "clearctx" -> "clear"
           [] OTHER -> IF Captures(l) THEN "um_lock" ELSE "recv"

\* main.rs 687-868: one event is taken from the stream and classified
Recv(L) ==
    /\ pc = "recv"
    /\ n < MaxLines
    /\ \E l \in L :
        /\ cur' = l
        /\ pc' = NextPc(l)
        /\ TEMPERATURE' = TempAfter(l, TEMPERATURE)
        /\ tasks' = Append(tasks, Spawned(l))
        /\ sent' = Append(sent, AdminSent(l))
    /\ n' = n + 1
    /\ UNCHANGED <<arg, ret, now, advances, inner, files, lock, poisoned, for_chat, readAt,
                   trimAt, nseq>>

\* insert_usermsg, main.rs 363-371: take the lock, find or create the entry
UmLock ==
    /\ pc = "um_lock"
    /\ LockFree
    /\ IF poisoned
       THEN /\ pc' = "crashed"
            /\ UNCHANGED <<inner, lock, nseq, trimAt>>
       ELSE /\ lock' = ByMain
            /\ IF HasUrl(cur.body)
               THEN /\ inner' = WithEntry(inner, cur.target)
                    /\ pc' = "um_probe"
                    /\ UNCHANGED <<nseq, trimAt>>
               ELSE PushUser(FALSE)
    /\ UNCHANGED <<TEMPERATURE, arg, ret, now, advances, files, poisoned, n, cur, for_chat, readAt, tasks, sent>>

\* insert_usermsg, main.rs 375-377: the content-type probe answers
UmProbe ==
    /\ pc = "um_probe"
    /\ lock = ByMain
    /\ \E img \in BOOLEAN : PushUser(img)
    /\ UNCHANGED <<TEMPERATURE, arg, ret, now, advances, files, lock, poisoned, n, cur, for_chat, readAt, tasks, sent>>

\* insert_usermsg, main.rs 380-383: write the channel file, drop the guard
UmWrite ==
    /\ pc = "um_write"
    /\ lock = ByMain
    /\ \E ok \in BOOLEAN :
        files' = IF ok
                 THEN [c \in DOMAIN files \cup {cur.target} |->
                         IF c = cur.target THEN inner[c] ELSE files[c]]
                 ELSE files
    /\ lock' = Free
    /\ trimAt' = 0
    /\ pc' = IF cur.kind = "chat" THEN "read" ELSE "recv"
    /\ UNCHANGED <<TEMPERATURE, arg, ret, now, advances, inner, poisoned, n, cur, for_chat, readAt, tasks, sent, nseq>>

StoreDecayed(map, channel, t) ==
    IF channel \in DOMAIN map
    THEN LET list == map[channel]
         IN  [map EXCEPT ![channel] =
                [i \in 1..Len(list) |->
                    [list[i] EXCEPT !.imgs = get_for_api(list[i], t).imgs]]]
    ELSE map

\* get_chat_messages, main.rs 414-437: the store behind the shared borrow
\* is what it was
StoreAfterRead(map, channel, t) == map

\* main.rs 806: get_chat_messages(target, inst.context)
Read ==
    /\ pc = "read"
    /\ LockFree
    /\ IF poisoned
       THEN /\ pc' = "crashed"
            /\ UNCHANGED <<inner, for_chat, readAt>>
       ELSE /\ for_chat' = get_chat_messages(inner, cur.target, cur.inst.context, now)
            /\ inner' = StoreAfterRead(inner, cur.target, now)
            /\ readAt' = now
            /\ pc' = "dispatch"
    /\ UNCHANGED <<TEMPERATURE, arg, ret, now, advances, files, lock, poisoned, n, cur, trimAt, tasks, sent, nseq>>

\* main.rs 807-816: the message of a directive that was not saved
Synthetic(img) ==
    LET u == extract_image_urls(n, cur.inst.msg, img, now, 0)
    IN  [i \in 1..Len(u) |-> RequestMsg(u[i], u[i].imgs)]

AfterSpawnJoin == "join"

\* main.rs 818-828: tokio::spawn returns at once and the loop continues
AfterSpawn == "recv"

\* main.rs 807-828: build the request and spawn the completion task
Dispatch ==
    /\ pc = "dispatch"
    /\ \E img \in (IF ~cur.inst.save /\ HasUrl(cur.inst.msg) THEN BOOLEAN ELSE {FALSE}) :
        tasks' = [tasks EXCEPT ![n] =
            [pc |-> "calling", inst |-> cur.inst, target |-> cur.target,
             resp_target |-> response_target(cur.target, cur.nick), nick |-> cur.nick,
             for_chat |-> IF cur.inst.save THEN for_chat ELSE for_chat \o Synthetic(img),
             resp |-> << >>, i |-> 0, at |-> 0, calls |-> 1, outcome |-> "none"]]
    /\ pc' = AfterSpawn
    /\ for_chat' = << >>
    /\ readAt' = 0
    /\ UNCHANGED <<TEMPERATURE, arg, ret, now, advances, inner, files, lock, poisoned, n, cur, trimAt, sent, nseq>>

\* main.rs 854-860: !clearctx, which then falls through to the capture
Clear ==
    /\ pc = "clear"
    /\ LockFree
    /\ IF poisoned
       THEN /\ pc' = "crashed"
            /\ UNCHANGED <<inner, sent>>
       ELSE /\ inner' = clear_chat_message(inner, response_target(cur.target, cur.nick))
            /\ sent' = [sent EXCEPT ![n] =
                          Append(@, Privmsg(response_target(cur.target, cur.nick), "cleared"))]
            /\ pc' = IF Captures(cur) THEN "um_lock" ELSE "recv"
    /\ UNCHANGED <<TEMPERATURE, arg, ret, now, advances, files, lock, poisoned, n, cur, for_chat, readAt, trimAt,
                   tasks, nseq>>

\* ------------------------------------------------------- completion tasks
TaskIds == { t \in 1..Len(tasks) : tasks[t].pc # "none" }

OnErrorRetry(t) ==
    /\ tasks' = [tasks EXCEPT ![t].calls = @ + 1]
    /\ sent' = [sent EXCEPT ![t] = Append(@, Privmsg(tasks[t].resp_target, "error"))]

\* main.rs 632-639: the completion failed
OnError(t) ==
    /\ tasks' = [tasks EXCEPT ![t].pc = "done", ![t].outcome = "err", ![t].for_chat = << >>]
    /\ sent' = [sent EXCEPT ![t] = Append(@, Privmsg(tasks[t].resp_target, "error"))]

StoresAlways(inst) == TRUE

\* main.rs 582: whether the response is stored
StoresResponse(inst) == inst.save

\* main.rs 579-584: get_chat answers
Complete(t) ==
    /\ Running
    /\ tasks[t].pc = "calling"
    /\ \/ OnError(t)
       \/ /\ \E r \in Responses :
               tasks' = [tasks EXCEPT ![t].resp = r, ![t].outcome = "ok", ![t].for_chat = << >>,
                            ![t].pc = IF StoresResponse(tasks[t].inst) THEN "sm_lock" ELSE "route"]
          /\ UNCHANGED sent
    /\ UNCHANGED <<TEMPERATURE, arg, ret, now, advances, inner, files, lock, poisoned, n, cur, pc, for_chat,
                   readAt, trimAt, nseq>>

\* insert_selfmsg, main.rs 385-393: take the lock, find or create the entry
SmLock(t) ==
    /\ Running
    /\ tasks[t].pc = "sm_lock"
    /\ LockFree
    /\ IF poisoned
       THEN /\ tasks' = [tasks EXCEPT ![t].pc = "panicked", ![t].resp = << >>]
            /\ UNCHANGED <<inner, lock>>
       ELSE /\ lock' = ByTask(t)
            /\ inner' = WithEntry(inner, tasks[t].target)
            /\ tasks' = [tasks EXCEPT ![t].pc = "sm_push", ![t].i = 1]
    /\ UNCHANGED <<TEMPERATURE, arg, ret, now, advances, files, poisoned, n, cur, pc, for_chat, readAt, trimAt,
                   sent, nseq>>

\* insert_selfmsg, main.rs 395-401: convert and push one message of the
\* response; after the last one, trim
SmPush(t) ==
    /\ Running
    /\ tasks[t].pc = "sm_push"
    /\ lock = ByTask(t)
    /\ LET T == tasks[t]
           m == T.resp[T.i]
           pushed == Append(WithEntry(inner, T.target)[T.target],
                            AgentTurn(t, T.i, Len(T.resp), m, now, nseq + 1))
       IN  IF ConvertPanics(m)
           THEN /\ poisoned' = TRUE
                /\ lock' = Free
                /\ tasks' = [tasks EXCEPT ![t].pc = "panicked", ![t].resp = << >>, ![t].i = 0]
                /\ UNCHANGED <<inner, nseq>>
           ELSE /\ nseq' = nseq + 1
                /\ UNCHANGED <<poisoned, lock>>
                /\ IF T.i < Len(T.resp)
                   THEN /\ inner' = [WithEntry(inner, T.target) EXCEPT ![T.target] = pushed]
                        /\ tasks' = [tasks EXCEPT ![t].i = T.i + 1]
                   ELSE /\ inner' = [WithEntry(inner, T.target) EXCEPT ![T.target] =
                                       trim_message_for_age_and_contextsize(pushed, now)]
                        /\ tasks' = [tasks EXCEPT ![t].pc = "sm_write", ![t].at = now]
    /\ UNCHANGED <<TEMPERATURE, arg, ret, now, advances, files, n, cur, pc, for_chat, readAt, trimAt, sent>>

\* insert_selfmsg, main.rs 404-407: write the channel file, drop the guard
SmWrite(t) ==
    /\ Running
    /\ tasks[t].pc = "sm_write"
    /\ lock = ByTask(t)
    /\ \E ok \in BOOLEAN :
        files' = IF ok
                 THEN [c \in DOMAIN files \cup {tasks[t].target} |->
                         IF c = tasks[t].target THEN inner[c] ELSE files[c]]
                 ELSE files
    /\ lock' = Free
    /\ tasks' = [tasks EXCEPT ![t].pc = "route", ![t].at = 0]
    /\ UNCHANGED <<TEMPERATURE, arg, ret, now, advances, inner, poisoned, n, cur, pc, for_chat, readAt, trimAt,
                   sent, nseq>>

\* main.rs 586-630: what is sent back for a response whose last message has
\* content; ok is the answer of the upload or audio collaborator
Reply(T, ok) ==
    IF T.inst.pastebin
    THEN IF ok THEN << Privmsg(T.resp_target, "url") >> ELSE << >>
    ELSE IF T.inst.tts
         THEN IF ok THEN << Privmsg(T.resp_target, "url") >> ELSE << >>
         ELSE << Privmsg(T.resp_target, "reply") >>

\* main.rs 586-630: route the reply
Route(t) ==
    /\ Running
    /\ tasks[t].pc = "route"
    /\ LET T == tasks[t]
           last == T.resp[Len(T.resp)]
       IN  \E ok \in (IF last.content /\ (T.inst.pastebin \/ T.inst.tts) THEN BOOLEAN ELSE {TRUE}) :
             /\ sent' = [sent EXCEPT ![t] = @ \o (IF last.content THEN Reply(T, ok) ELSE << >>)]
             /\ tasks' = [tasks EXCEPT ![t].pc = "done", ![t].resp = << >>, ![t].i = 0,
                                       ![t].outcome = IF ~last.content THEN "silent"
                                                      ELSE IF ok THEN "ok" ELSE "route_err"]
    /\ UNCHANGED <<TEMPERATURE, arg, ret, now, advances, inner, files, lock, poisoned, n, cur, pc, for_chat,
                   readAt, trimAt, nseq>>

\* main.rs 749-754, 764-774, 785-795, 834-851: the collaborator of an
\* auxiliary task answers and its result or its error is sent
AuxDone(t) ==
    /\ Running
    /\ tasks[t].pc = "aux_calling"
    /\ \E ok \in BOOLEAN :
        sent' = [sent EXCEPT ![t] =
                    Append(@, Privmsg(tasks[t].resp_target, IF ok THEN "url" ELSE "error"))]
    /\ tasks' = [tasks EXCEPT ![t].pc = "done", ![t].outcome = "aux"]
    /\ UNCHANGED <<TEMPERATURE, arg, ret, now, advances, inner, files, lock, poisoned, n, cur,
                   pc, for_chat, readAt, trimAt, nseq>>

\* ------------------------------------------------- text, as characters
\* a line of text is the sequence of its characters
CommandWord == <<"!", "c", "h", "a", "t">>
BotNameChars == <<"C", "h", "a", "r", "b", "o", "t", "9", "0", "0", "0">>
BOTNAME_PREFIX1 == BotNameChars \o <<":">>
BOTNAME_PREFIX2 == BotNameChars \o <<",">>
HttpsScheme == <<"h", "t", "t", "p", "s", ":", "/", "/">>

\* char::is_whitespace / is_ascii_whitespace on the characters in use
IsSpace(c) == c \in {" ", "\t"}

RECURSIVE trim_start(_)
trim_start(s) == IF s # << >> /\ IsSpace(Head(s)) THEN trim_start(Tail(s)) ELSE s

RECURSIVE trim_end(_)
trim_end(s) ==
    IF s # << >> /\ IsSpace(s[Len(s)]) THEN trim_end(SubSeq(s, 1, Len(s) - 1)) ELSE s

\* str::trim
trim(s) == trim_end(trim_start(s))

\* str::starts_with
starts_with(s, p) == Len(s) >= Len(p) /\ SubSeq(s, 1, Len(p)) = p

\* what str::strip_prefix returns when the prefix is there
strip_prefix(s, p) == SubSeq(s, Len(p) + 1, Len(s))

\* the position of the first character of s that is in cs, 0 if none
RECURSIVE find(_, _, _)
find(s, cs, i) ==
    IF i > Len(s) THEN 0 ELSE IF s[i] \in cs THEN i ELSE find(s, cs, i + 1)

\* str::split on a set of separator characters: every segment, empty ones too
RECURSIVE split(_, _)
split(s, cs) ==
    LET p == find(s, cs, 1)
    IN  IF p = 0 THEN << s >>
        ELSE << SubSeq(s, 1, p - 1) >> \o split(SubSeq(s, p + 1, Len(s)), cs)

\* str::splitn(2, c): one piece, or the text before the first c and all after it
splitn2(s, c) ==
    LET p == find(s, {c}, 1)
    IN  IF p = 0 THEN << s >> ELSE << SubSeq(s, 1, p - 1), SubSeq(s, p + 1, Len(s)) >>

RECURSIVE squeeze(_)
squeeze(s) ==
    IF Len(s) < 2 THEN s
    ELSE IF IsSpace(s[1]) /\ IsSpace(s[2]) THEN squeeze(Tail(s))
    ELSE << s[1] >> \o squeeze(Tail(s))

RECURSIVE splitn_last_squeezed(_, _)
splitn_last_squeezed(s, k) ==
    LET p == find(s, {" "}, 1)
    IN  IF k = 0 \/ p = 0 THEN squeeze(s)
        ELSE splitn_last_squeezed(SubSeq(s, p + 1, Len(s)), k - 1)

\* str::splitn(k + 1, ' ').last()
RECURSIVE splitn_last(_, _)
splitn_last(s, k) ==
    LET p == find(s, {" "}, 1)
    IN  IF k = 0 \/ p = 0 THEN s ELSE splitn_last(SubSeq(s, p + 1, Len(s)), k - 1)

\* str::split_ascii_whitespace: the non-empty words
RECURSIVE split_ascii_whitespace(_)
split_ascii_whitespace(s) ==
    LET t == trim_start(s)
        p == find(t, {" ", "\t"}, 1)
    IN  IF t = << >> THEN << >>
        ELSE IF p = 0 THEN << t >>
        ELSE << SubSeq(t, 1, p - 1) >> \o split_ascii_whitespace(SubSeq(t, p + 1, Len(t)))

\* f32 values: a number of tenths, or not a number
F32(v) == [nan |-> FALSE, inf |-> FALSE, v |-> v]
NaN == [nan |-> TRUE, inf |-> FALSE, v |-> 0]
\* positive infinity
Infinity == [nan |-> FALSE, inf |-> TRUE, v |-> 0]

\* f32::clamp(0.0, 2.0), which hands a NaN back
clampF32(x) == IF x.nan THEN x ELSE IF x.inf THEN F32(MaxTemp) ELSE F32(clamp(x.v))

\* str::parse::<f32> on the numerals in use
parse_f32(s) ==
    CASE s = <<"1">> -> [ok |-> TRUE, val |-> F32(10)]
      [] s = <<"0", ".", "5">> -> [ok |-> TRUE, val |-> F32(5)]
      [] s = <<"5", "5">> -> [ok |-> TRUE, val |-> F32(550)]
      [] s = <<"3">> -> [ok |-> TRUE, val |-> F32(30)]
      [] s = <<"-", "1">> -> [ok |-> TRUE, val |-> F32(-10)]
      [] s = <<"n", "a", "n">> -> [ok |-> TRUE, val |-> NaN]
      [] s = <<"i", "n", "f">> -> [ok |-> TRUE, val |-> Infinity]
      [] OTHER -> [ok |-> FALSE, val |-> F32(0)]

\* boolify: "some" tells whether the text is one of the eight words
boolify(present, s) ==
    IF present /\ s \in {<<"y">>, <<"y", "e", "s">>, <<"t", "r", "u", "e">>, <<"o", "n">>}
    THEN [some |-> TRUE, val |-> TRUE]
    ELSE IF present /\ s \in {<<"n">>, <<"n", "o">>, <<"f", "a", "l", "s", "e">>, <<"o", "f", "f">>}
         THEN [some |-> TRUE, val |-> FALSE]
         ELSE [some |-> FALSE, val |-> FALSE]

\* struct ChatInstruction, the message as characters
ChatInstruction(msg, temp, context, save, pastebin, tts) ==
    [msg |-> msg, temp |-> temp, context |-> context, save |-> save,
     pastebin |-> pastebin, tts |-> tts]

\* ChatInstruction::default
default_fixed(msg, temperature) ==
    ChatInstruction(msg, F32(InitialTemp), TRUE, TRUE, FALSE, FALSE)

default(msg, temperature) == ChatInstruction(msg, F32(temperature), TRUE, TRUE, FALSE, FALSE)

\* ChatInstruction::update
\* Option::unwrap_or(true)
unwrap_or_false(b) == IF b.some THEN b.val ELSE FALSE

unwrap_or_true(b) == IF b.some THEN b.val ELSE TRUE

update(inst, cmd) ==
    LET kv == splitn2(cmd, "=")
        param == kv[1]
        present == Len(kv) = 2
        val == IF present THEN kv[2] ELSE << >>
        b == boolify(present, val)
    IN  CASE param = <<"c", "o", "n", "t", "e", "x", "t">> -> IF b.some THEN [inst EXCEPT !.context = b.val] ELSE inst
          [] param = <<"s", "a", "v", "e">> -> IF b.some THEN [inst EXCEPT !.save = b.val] ELSE inst
          [] param \in {<<"p", "a", "s", "t", "e">>, <<"p", "a", "s", "t", "e", "b", "i", "n">>} ->
                [inst EXCEPT !.pastebin = unwrap_or_true(b)]
          [] param = <<"t", "e", "m", "p">> ->
                IF present /\ parse_f32(val).ok
                THEN [inst EXCEPT !.temp = clampF32(parse_f32(val).val)]
                ELSE inst
          [] param = <<"t", "t", "s">> -> [inst EXCEPT !.tts = unwrap_or_true(b)]
          [] OTHER -> inst

RECURSIVE update_all_reversed(_, _)
update_all_reversed(inst, cmds) ==
    IF cmds = << >> THEN inst ELSE update(update_all_reversed(inst, Tail(cmds)), Head(cmds))

RECURSIVE update_all(_, _)
update_all(inst, cmds) ==
    IF cmds = << >> THEN inst ELSE update_all(update(inst, Head(cmds)), Tail(cmds))

OptionSepsNoSlash == {":", ","}

\* main.rs 472: cmds.split([':', ',', '/'])
OptionSeps == {":", ",", "/"}

\* main.rs 484-491: the leading words that begin with "--" are applied,
\* skipped_words is the index of the word that ended the loop (0 if none did)
RECURSIVE dash_options(_, _, _)
dash_options(inst, words, idx) ==
    IF idx > Len(words) THEN [inst |-> inst, skipped_words |-> 0]
    ELSE IF starts_with(words[idx], <<"-", "-">>)
         THEN dash_options(update(inst, strip_prefix(words[idx], <<"-", "-">>)), words, idx + 1)
         ELSE [inst |-> inst, skipped_words |-> idx - 1]

Some(inst) == [fn |-> "parse", some |-> TRUE, inst |-> inst]
None == [fn |-> "parse", some |-> FALSE]

TakesAnyLine(line, temperature) == Some(default(trim(line), temperature))

\* main.rs 504-506: no trigger form matched
NoTrigger(line, temperature) == None

\* get_chat_instruction
addressed_with_options(inst, data) ==
    [dash_options(inst, split_ascii_whitespace(data), 1).inst EXCEPT !.msg = trim(data)]

\* the address form: the rest of the line is the message
addressed(inst, data) == [inst EXCEPT !.msg = trim(data)]

get_chat_instruction(line, temperature) ==
    LET inst == default(trim(line), temperature)
    IN  IF starts_with(trim(line), CommandWord)
        THEN LET data == strip_prefix(trim(line), CommandWord)
             IN  IF data = << >> THEN Some(default(<< >>, temperature))
                 ELSE IF data[1] \in {"/", ":"}
                 THEN LET sp == splitn2(Tail(data), " ")
                          done == update_all(inst, split(sp[1], OptionSeps))
                      IN  Some([done EXCEPT !.msg = IF Len(sp) = 2 THEN trim(sp[2]) ELSE << >>])
                 ELSE LET d == dash_options(inst, split_ascii_whitespace(data), 1)
                      IN  Some([d.inst EXCEPT !.msg =
                                    trim(splitn_last(trim(data), d.skipped_words))])
        ELSE IF starts_with(line, BOTNAME_PREFIX1)
             THEN Some(addressed(inst, strip_prefix(line, BOTNAME_PREFIX1)))
             ELSE IF starts_with(line, BOTNAME_PREFIX2)
                  THEN Some(addressed(inst, strip_prefix(line, BOTNAME_PREFIX2)))
                  ELSE NoTrigger(line, temperature)

\* ------------------------------------------- extract_image_urls in detail
\* the answer of get_content_type for one URL
Probed(ok, ct) == [ok |-> ok, ct |-> ct]

IsAnyType(ct) == TRUE

\* main.rs 328: ct.starts_with("image/")
IsImage(ct) == ct = "image/png"

\* main.rs 324-338: the image parts, one for each URL whose probe says image
RECURSIVE image_parts(_, _)
image_parts(urls, probe) ==
    IF urls = << >> THEN << >>
    ELSE (IF probe[Head(urls)].ok /\ IsImage(probe[Head(urls)].ct)
          THEN << Head(urls) >> ELSE << >>) \o image_parts(Tail(urls), probe)

\* select the words that begin with https://
RECURSIVE https_words(_)
https_words(words) ==
    IF words = << >> THEN << >>
    ELSE (IF starts_with(Head(words), HttpsScheme) THEN << Head(words) >> ELSE << >>)
         \o https_words(Tail(words))

\* extract_image_urls, main.rs 301-348, with the content of the message
extract_image_urls_content(sender, message, probe) ==
    LET urls == https_words(split_ascii_whitespace(message))
    IN  << [role |-> "user", name |-> sender,
            kind |-> IF urls = << >> THEN "text" ELSE "array",
            text |-> [sender |-> sender, message |-> message],
            images |-> image_parts(urls, probe)] >>

\* lines for the runs in which time passes: one channel, a sender who is
\* captured and one who is not
AgeLines ==
    { Line("chat", "#a", "bob", i.msg, i) :
        i \in { Inst("u", TRUE, TRUE, FALSE, FALSE), Inst("t", FALSE, FALSE, FALSE, FALSE),
                Inst("t", TRUE, FALSE, FALSE, FALSE) } }
    \cup { Line("plain", "#a", "achin", "t", NoInst),
           Line("clearctx", "#a", "bob", "t", NoInst) }

\* the steps of the event loop after a line is taken, and of the tasks
Steps ==
    \/ UmLock
    \/ UmProbe
    \/ UmWrite
    \/ Read
    \/ Dispatch
    \/ Clear
    \/ \E t \in TaskIds : Complete(t)
    \/ \E t \in TaskIds : SmLock(t)
    \/ \E t \in TaskIds : SmPush(t)
    \/ \E t \in TaskIds : SmWrite(t)
    \/ \E t \in TaskIds : Route(t)

\* the event loop and its tasks within one tick of the clock
Next ==
    \/ Recv(Lines)
    \/ Steps

Spec == Init /\ [][Next]_vars

\* the same with time passing between the steps
NextAge ==
    \/ AdvanceClock
    \/ Recv(AgeLines)
    \/ Steps

SpecAge == Init /\ [][NextAge]_vars

\* lines for the runs with commands: every command from the owner on a
\* channel, some from others and from an ignored sender, next to a saved
\* directive, a captured line and a clear
AdminLines ==
    { Line(k, "#a", "achin", "t", NoInst) :
        k \in {"echo", "get_temp", "join", "part", "quit", "tts", "img", "clearctx"} }
    \cup { Line("set_temp", "#a", "achin", b, NoInst) : b \in {"0.5", "55", "-1", "inf", "t"} }
    \cup { Line("plain", "#a", "achin", "u", NoInst),
           Line("chat", "#a", "achin", "t", Inst("t", TRUE, TRUE, FALSE, FALSE)),
           Line("echo", BOTNAME, "bob", "t", NoInst),
           Line("quit", "#a", "bob", "t", NoInst),
           Line("join", "#a", "bob", "t", NoInst),
           Line("part", BOTNAME, "bob", "t", NoInst),
           Line("plain", "#a", "GizmoBot", "t", NoInst),
           Line("chat", "#a", "GizmoBot", "t", Inst("t", TRUE, TRUE, FALSE, FALSE)),
           Line("set_temp", "#a", "GizmoBot", "0.5", NoInst),
           Line("clearctx", "#a", "GizmoBot", "t", NoInst),
           Line("error", "", "", "t", NoInst) }

\* the event loop with its commands and the auxiliary tasks
NextAdmin ==
    \/ Recv(AdminLines)
    \/ Steps
    \/ \E t \in TaskIds : AuxDone(t)

SpecAdmin == Init /\ [][NextAdmin]_vars

\* lines for the runs with private queries: two users who address the bot
\* in a query, one of them with a URL, a directive on a channel, a clear
\* sent in a query
QueryLines ==
    { Line("chat", BOTNAME, "bob", "t", Inst("t", TRUE, TRUE, FALSE, FALSE)),
      Line("chat", BOTNAME, "achin", "u", Inst("u", TRUE, TRUE, FALSE, FALSE)),
      Line("chat", "#a", "bob", "t", Inst("t", TRUE, FALSE, FALSE, FALSE)),
      Line("clearctx", BOTNAME, "bob", "t", NoInst) }

NextQuery ==
    \/ Recv(QueryLines)
    \/ Steps

SpecQuery == Init /\ [][NextQuery]_vars

\* lines for the runs about progress: a saved directive, one that is not
\* saved, a captured line with a URL, a clear
LiveLines ==
    { Line("chat", "#a", "bob", "t", Inst("t", TRUE, TRUE, FALSE, FALSE)),
      Line("chat", "#a", "bob", "t", Inst("t", TRUE, FALSE, FALSE, FALSE)),
      Line("plain", "#a", "achin", "u", NoInst),
      Line("clearctx", "#a", "bob", "t", NoInst) }

NextLive ==
    \/ Recv(LiveLines)
    \/ Steps

\* the steps of the event loop itself
MainSteps == UmLock \/ UmProbe \/ UmWrite \/ Read \/ Dispatch \/ Clear

\* the steps of a task between taking the store's lock and dropping it
HolderSteps == \E t \in TaskIds : SmPush(t) \/ SmWrite(t)

\* the event loop runs and whoever holds the lock runs; nothing is assumed
\* of the completion service, whose call may never return
SpecLive == Init /\ [][NextLive]_vars /\ WF_vars(MainSteps) /\ WF_vars(HolderSteps)

\* ----------------------------------------------- the parser on its own
\* the lines given to get_chat_instruction: an optional space, a first
\* word, and what follows it
Leads == { << >>, <<" ">> }

Heads == { CommandWord, <<"!", "c", "h", "a">>, BOTNAME_PREFIX1, BOTNAME_PREFIX2, BotNameChars, <<"h", "i">> }

OptTokens ==
    { <<"s", "a", "v", "e", "=", "n", "o">>,
      <<"c", "o", "n", "t", "e", "x", "t", "=", "o", "f", "f">>,
      <<"t", "t", "s">>,
      <<"t", "e", "m", "p", "=", "5", "5">>,
      <<"x">>,
      <<>>,
      <<"s", "a", "v", "e", "=", "y", "e", "s">>,
      <<"t", "e", "m", "p", "=", "0", ".", "5">> }

RECURSIVE Blocks(_)
Blocks(k) ==
    IF k <= 1 THEN OptTokens
    ELSE Blocks(k - 1)
         \cup { b \o <<c>> \o t : b \in Blocks(k - 1), c \in {":", ",", "/"}, t \in OptTokens }

Rests ==
    { <<>>,
      <<" ", "h", "i">>,
      <<" ", " ", "a", " ", " ", "b", " ">>,
      <<"\t", "h", "i">> }

\* the whitespace between the words of the -- form
Gaps == { <<" ">>, <<" ", " ">>, <<"\t">> }

DashTokens ==
    { <<"s", "a", "v", "e", "=", "n", "o">>,
      <<"s", "a", "v", "e", "=", "y", "e", "s">>,
      <<"t", "t", "s">>,
      <<"x">> }

\* up to k option words, each after its whitespace
RECURSIVE DashOpts(_)
DashOpts(k) ==
    IF k <= 1 THEN { g \o <<"-", "-">> \o t : g \in Gaps, t \in DashTokens }
    ELSE DashOpts(k - 1)
         \cup { d \o g \o <<"-", "-">> \o t :
                    d \in DashOpts(k - 1), g \in Gaps, t \in DashTokens }

DashTails(k) == { d \o r : d \in DashOpts(k), r \in Rests }

Tails(k) ==
    Rests \cup DashTails(k)
    \cup { <<c>> \o b \o r : c \in {":", "/"}, b \in Blocks(k), r \in Rests }

\* the lines with up to k option tokens
ParseLines(k) == { l \o h \o t : l \in Leads, h \in Heads, t \in Tails(k) }

InitParse ==
    /\ Idle
    /\ arg \in { [fn |-> "parse", line |-> l] : l \in ParseLines(MaxOpts) }
    /\ ret = NoRet

\* one call of get_chat_instruction
Parse ==
    /\ arg.fn = "parse"
    /\ ret = NoRet
    /\ ret' = get_chat_instruction(arg.line, TEMPERATURE)
    /\ UNCHANGED <<TEMPERATURE, arg, now, advances, inner, files, lock, poisoned, n, cur, pc,
                   for_chat, readAt, trimAt, tasks, sent, nseq>>

NextParse == Parse

SpecParse == InitParse /\ [][NextParse]_vars

\* ------------------------- get_chat_instruction while !set_temp lines arrive
SetTempLines ==
    { Line("set_temp", "#a", "achin", b, NoInst) : b \in {"0.5", "55", "-1", "inf", "t"} }

TempRests == Rests \cup { <<" ">>, <<"\t">> }

TempParseLines == { l \o h \o r : l \in Leads, h \in Heads, r \in TempRests }

InitParseTemp ==
    /\ Idle
    /\ arg \in { [fn |-> "parse", line |-> l] : l \in TempParseLines }
    /\ ret = NoRet

NextParseTemp ==
    \/ Recv(SetTempLines)
    \/ Parse

SpecParseTemp == InitParseTemp /\ [][NextParseTemp]_vars

\* ------------------------------------------------ the AtomicF32 cell
\* f32::to_bits of the temperatures 0.0, 0.2, 0.5, 1.0, 1.5 and 2.0 (tenths)
BitsOf ==
    { <<0, 0>>, <<2, 1045220557>>, <<5, 1056964608>>, <<10, 1065353216>>,
      <<15, 1069547520>>, <<20, 1073741824>> }

CellValues == { p[1] : p \in BitsOf }

to_bits(value) == (CHOOSE p \in BitsOf : p[1] = value)[2]

\* f32::from_bits; a pattern of no value above is some other number
OtherF32 == 0 - 1

from_bits(bits) ==
    IF \E p \in BitsOf : p[2] = bits
    THEN (CHOOSE p \in BitsOf : p[2] = bits)[1]
    ELSE OtherF32

HalfWord == 65536

\* a store that writes the low half of the word only
store_torn(storage, value) == (storage \div HalfWord) * HalfWord + (to_bits(value) % HalfWord)

\* AtomicF32::store: the storage after the store
store(storage, value) == to_bits(value)

\* AtomicF32::load
load(storage) == from_bits(storage)

CellLines ==
    { CommandWord,
      CommandWord \o <<" ", "h", "i">>,
      CommandWord \o <<" ", "-", "-", "t", "t", "s", " ", "h", "i">>,
      CommandWord \o <<":", "s", "a", "v", "e", "=", "n", "o", " ", "h", "i">>,
      CommandWord \o <<":", "t", "e", "m", "p", "=", "0", ".", "5", " ", "h", "i">>,
      CommandWord \o <<" ", "-", "-", "t", "e", "m", "p", "=", "5", "5", " ", "h", "i">>,
      BOTNAME_PREFIX1 \o <<" ", "h", "i">> }

\* after TEMPERATURE.store(1.0); TEMPERATURE is the value last stored and
\* arg.storage the word of the cell
InitCell ==
    /\ Idle
    /\ arg \in { [fn |-> "cell", storage |-> store(0, InitialTemp), line |-> l] : l \in CellLines }
    /\ ret = NoRet

\* TEMPERATURE.store(value), as an accepted !set_temp does
AtomicStore ==
    /\ arg.fn = "cell"
    /\ \E value \in CellValues :
        /\ arg' = [arg EXCEPT !.storage = store(@, value)]
        /\ TEMPERATURE' = value
    /\ UNCHANGED <<ret, now, advances, inner, files, lock, poisoned, n, cur, pc,
                   for_chat, readAt, trimAt, tasks, sent, nseq>>

\* get_chat_instruction with the temperature it loads from the cell
ParseLoaded ==
    /\ arg.fn = "cell"
    /\ ret = NoRet
    /\ ret' = get_chat_instruction(arg.line, load(arg.storage))
    /\ UNCHANGED <<TEMPERATURE, arg, now, advances, inner, files, lock, poisoned, n, cur, pc,
                   for_chat, readAt, trimAt, tasks, sent, nseq>>

NextCell ==
    \/ AtomicStore
    \/ ParseLoaded

SpecCell == InitCell /\ [][NextCell]_vars

\* ------------------------------------- send_possibly_long_message on its own
\* the lengths, after trimming, of the lines split_long_message_for_irc
\* returns: none is blank and none is longer than the wrap width
LineLengths == {1, 150, 400}

RECURSIVE ReplyLines(_)
ReplyLines(k) ==
    IF k = 0 THEN { << >> }
    ELSE ReplyLines(k - 1)
         \cup { Append(r, len) : r \in { q \in ReplyLines(k - 1) : Len(q) = k - 1 },
                                 len \in LineLengths }

\* what is sent from line i on, with the count so far; uploaded tells
\* whether upload_content succeeds
RECURSIVE send_possibly_long_message(_, _, _, _)
send_possibly_long_message(lines, i, length, uploaded) ==
    IF i > Len(lines) THEN << >>
    ELSE LET counted == length + 1 + (lines[i] \div LineUnit)
         IN  IF counted < LineBudget
             THEN << [kind |-> "line", idx |-> i] >>
                  \o send_possibly_long_message(lines, i + 1, counted, uploaded)
             ELSE << [kind |-> IF uploaded THEN "link" ELSE "upload_error", idx |-> 0] >>

InitSend ==
    /\ Idle
    /\ arg \in { [fn |-> "send", lines |-> r] : r \in ReplyLines(MaxReplyLines) }
    /\ ret = NoRet

\* one call of send_possibly_long_message
SendLong ==
    /\ arg.fn = "send"
    /\ ret = NoRet
    /\ \E uploaded \in BOOLEAN :
        ret' = [fn |-> "send", out |-> send_possibly_long_message(arg.lines, 1, 0, uploaded)]
    /\ UNCHANGED <<TEMPERATURE, arg, now, advances, inner, files, lock, poisoned, n, cur, pc,
                   for_chat, readAt, trimAt, tasks, sent, nseq>>

NextSend == SendLong

SpecSend == InitSend /\ [][NextSend]_vars

\* ------------------------------------------- ChatInstruction::update on its own
OptionKeys ==
    { <<"c", "o", "n", "t", "e", "x", "t">>,
      <<"s", "a", "v", "e">>,
      <<"p", "a", "s", "t", "e">>,
      <<"p", "a", "s", "t", "e", "b", "i", "n">>,
      <<"t", "t", "s">>,
      <<"t", "e", "m", "p">>,
      <<"x">> }

OptionValues ==
    { <<>>,
      <<"y">>,
      <<"y", "e", "s">>,
      <<"t", "r", "u", "e">>,
      <<"o", "n">>,
      <<"n">>,
      <<"n", "o">>,
      <<"f", "a", "l", "s", "e">>,
      <<"o", "f", "f">>,
      <<"m", "a", "y", "b", "e">>,
      <<"Y">>,
      <<"0", ".", "5">>,
      <<"5", "5">>,
      <<"3">>,
      <<"-", "1">>,
      <<"n", "a", "n">>,
      <<"i", "n", "f">> }

\* key and key=value
OptionCmds == OptionKeys \cup { k \o <<"=">> \o v : k \in OptionKeys, v \in OptionValues }

\* the instructions update can meet: any flags, the default or a set temperature
UpdateInsts ==
    { ChatInstruction(<< >>, F32(t), c, s, p, a) :
        t \in {InitialTemp, MinTemp}, c \in BOOLEAN, s \in BOOLEAN, p \in BOOLEAN, a \in BOOLEAN }

InitUpdate ==
    /\ Idle
    /\ arg \in { [fn |-> "update", inst |-> i, cmd |-> c] : i \in UpdateInsts, c \in OptionCmds }
    /\ ret = NoRet

\* one call of update
Update ==
    /\ arg.fn = "update"
    /\ ret = NoRet
    /\ ret' = [fn |-> "update", inst |-> update(arg.inst, arg.cmd)]
    /\ UNCHANGED <<TEMPERATURE, arg, now, advances, inner, files, lock, poisoned, n, cur, pc,
                   for_chat, readAt, trimAt, tasks, sent, nseq>>

NextUpdate == Update

SpecUpdate == InitUpdate /\ [][NextUpdate]_vars

\* -------------------------------------------- insert_usermsg on its own
UrlA == <<"h", "t", "t", "p", "s", ":", "/", "/", "a">>
UrlB == <<"h", "t", "t", "p", "s", ":", "/", "/", "b">>

\* the words of a message: a plain word, two https URLs, an http URL
Words == { <<"h", "i">>, UrlA, UrlB, <<"h", "t", "t", "p", ":", "/", "/", "c">> }

RECURSIVE WordLists(_)
WordLists(k) ==
    IF k = 0 THEN { << >> }
    ELSE WordLists(k - 1) \cup { Append(ws, w) : ws \in WordLists(k - 1), w \in Words }

\* the words joined by single spaces
RECURSIVE Joined(_)
Joined(ws) ==
    IF ws = << >> THEN << >>
    ELSE IF Len(ws) = 1 THEN ws[1]
    ELSE ws[1] \o <<" ">> \o Joined(Tail(ws))

\* every way the content-type probe can answer for the two URLs
Probes == [ {UrlA, UrlB} -> { Probed(TRUE, "image/png"), Probed(TRUE, "text/html"),
                              Probed(FALSE, "") } ]

\* the channel before the insert: empty, or with one Turn
Befores == { << >>, << [date |-> 0, msg |-> [role |-> "assistant"]] >> }

\* ChatMessageThing::new_now
new_now(msg, t) == [date |-> t, msg |-> msg]

\* insert_usermsg, main.rs 375-377, with the content of the message
insert_usermsg_content(list, sender, message, probe, t) ==
    LET m == extract_image_urls_content(sender, message, probe)
    IN  trim_message_for_age_and_contextsize(
            list \o [i \in 1..Len(m) |-> new_now(m[i], t)], t)

InitExtract ==
    /\ Idle
    /\ arg \in { [fn |-> "extract", sender |-> "achin", words |-> ws, message |-> Joined(ws),
                  probe |-> p, before |-> b] :
                    ws \in WordLists(MaxWords), p \in Probes, b \in Befores }
    /\ ret = NoRet

\* one call of insert_usermsg
Extract ==
    /\ arg.fn = "extract"
    /\ ret = NoRet
    /\ ret' = [fn |-> "extract",
               list |-> insert_usermsg_content(arg.before, arg.sender, arg.message,
                                               arg.probe, now)]
    /\ UNCHANGED <<TEMPERATURE, arg, now, advances, inner, files, lock, poisoned, n, cur, pc,
                   for_chat, readAt, trimAt, tasks, sent, nseq>>

NextExtract == Extract

SpecExtract == InitExtract /\ [][NextExtract]_vars

\* no completion task is in flight
Quiet == \A t \in TaskIds : tasks[t].pc \in {"done", "panicked"}

\* lines that arrive one at a time, each after the work of the earlier
\* ones has ended, with time passing
NextSeq ==
    \/ AdvanceClock
    \/ Quiet /\ Recv(AgeLines)
    \/ Steps

SpecSeq == Init /\ [][NextSeq]_vars

\* ------------------------------------------------------------- properties
Hours(h) == h * TicksPerHour

\* every stored Turn, as <<channel, position>>
Stored == UNION { { <<c, i>> : i \in 1..Len(inner[c]) } : c \in DOMAIN inner }

TurnsOfLine(l) == { ci \in Stored : inner[ci[1]][ci[2]].line = l }

Calling == { t \in TaskIds : tasks[t].pc = "calling" }

\* C1: the Turns handed to the completion service for a directive with a
\* non-empty message end with that directive's own message.
C1_RequestEndsWithDirective ==
    \A t \in Calling :
        tasks[t].inst.msg # "" =>
            LET fc == tasks[t].for_chat
            IN  fc # << >> /\ fc[Len(fc)].line = t /\ fc[Len(fc)].k = 0

\* C2: whoever holds the store's lock is not performing or waiting on I/O
\* (the content-type probe, the write of the channel file).
C2_NoIOUnderLock ==
    /\ lock = ByMain => pc \notin {"um_probe", "um_write"}
    /\ \A t \in TaskIds : lock = ByTask(t) => tasks[t].pc # "sm_write"

\* C3: right after an insert has trimmed the channel, the oldest Turn left
\* in it is at most 48 hours old.
C3_FrontWithin48h ==
    /\ (pc = "um_write" /\ inner[cur.target] # << >>) =>
           trimAt - Head(inner[cur.target]).date <= Hours(MaxAgeHours)
    /\ \A t \in TaskIds :
           (tasks[t].pc = "sm_write" /\ inner[tasks[t].target] # << >>) =>
               tasks[t].at - Head(inner[tasks[t].target]).date <= Hours(MaxAgeHours)

\* C4: get_chat_messages never returns a Turn older than 48 hours at the
\* time of the read.
C4_ReadWithin48h ==
    pc = "dispatch" =>
        \A i \in 1..Len(for_chat) : readAt - for_chat[i].sdate <= Hours(MaxAgeHours)

\* C5: a read with all_context = false returns exactly the most recently
\* inserted Turn of the channel (nothing for an unknown or empty channel),
\* a read with all_context = true returns every retained Turn once, in
\* insertion order.
SameTurn(m, cmt) ==
    /\ m.line = cmt.line /\ m.k = cmt.k /\ m.seq = cmt.seq
    /\ m.role = cmt.role /\ m.kind = cmt.kind /\ m.sdate = cmt.date

C5_ReadReturns ==
    [][ (pc = "read" /\ pc' = "dispatch") =>
          LET list == IF cur.target \in DOMAIN inner THEN inner[cur.target] ELSE << >>
          IN  IF cur.inst.context
              THEN /\ Len(for_chat') = Len(list)
                   /\ \A i \in 1..Len(list) : SameTurn(for_chat'[i], list[i])
                   /\ \A i \in 1..Len(list) : \A j \in 1..Len(list) :
                          i < j => for_chat'[i].seq < for_chat'[j].seq
              ELSE IF list = << >>
                   THEN for_chat' = << >>
                   ELSE /\ Len(for_chat') = 1
                        /\ \E i \in 1..Len(list) : SameTurn(for_chat'[1], list[i])
                        /\ \A i \in 1..Len(list) : list[i].seq <= for_chat'[1].seq
    ]_vars

\* a read of the last Turn only, from a channel that holds several
C5_Witness ==
    /\ pc = "dispatch"
    /\ ~cur.inst.context
    /\ Len(for_chat) = 1
    /\ cur.target \in DOMAIN inner
    /\ Len(inner[cur.target]) >= 2
    /\ for_chat[1].seq > 1

\* C6: a multi-part Turn read at an age above one hour comes back with its
\* text parts only, at an age of at most one hour with all its parts;
\* every other Turn comes back unchanged.
C6_ImageDecay ==
    pc = "dispatch" =>
        \A i \in 1..Len(for_chat) :
            LET m == for_chat[i]
                age == readAt - m.sdate
            IN  IF m.role = "user" /\ m.kind = "array" /\ age > Hours(ImageAgeHours)
                THEN m.imgs = 0
                ELSE m.imgs = m.simgs

\* C7: the Turns of one response stand in the log as one block in response
\* order with nothing between them (a Turn of a response is preceded by the
\* Turn before it in the response unless it is the front of the log), and a
\* read of the whole log never holds a block without its end.
BlockInOrder(list) ==
    \A j \in 2..Len(list) :
        list[j].k >= 2 =>
            /\ list[j - 1].line = list[j].line
            /\ list[j - 1].k = list[j].k - 1

BlockWhole(list) ==
    \A j \in 1..Len(list) :
        (list[j].k >= 1 /\ list[j].k < list[j].of) =>
            /\ j < Len(list)
            /\ list[j + 1].line = list[j].line
            /\ list[j + 1].k = list[j].k + 1

C7_InsertSelfAtomic ==
    /\ \A c \in DOMAIN inner : BlockInOrder(inner[c])
    /\ (pc = "dispatch" /\ cur.inst.context) => BlockInOrder(for_chat) /\ BlockWhole(for_chat)
    /\ \A t \in Calling :
           tasks[t].inst.context =>
               BlockInOrder(tasks[t].for_chat) /\ BlockWhole(tasks[t].for_chat)

\* a request that holds the three Turns of an earlier response
C7_Witness ==
    \E t \in Calling :
        /\ tasks[t].inst.context
        /\ \E j \in 1..Len(tasks[t].for_chat) : tasks[t].for_chat[j].k = 3

\* C8: a directive with save = false puts nothing into the store, neither
\* its message nor a Turn of its response.
C8_NoSaveNoInsert ==
    /\ (n > 0 /\ cur.kind = "chat" /\ ~cur.inst.save) => TurnsOfLine(n) = {}
    /\ \A t \in TaskIds : ~tasks[t].inst.save => TurnsOfLine(t) = {}

\* the task of such a directive has received a response and replied
C8_Witness ==
    \E t \in TaskIds :
        /\ ~tasks[t].inst.save
        /\ tasks[t].pc = "done"
        /\ tasks[t].outcome = "ok"
        /\ Stored # {}

\* C9: a directive line invokes the completion service at most once; a
\* failed invocation sends exactly one error message, is not retried and
\* stores no agent Turn.
C9_FailureReportedOnce ==
    \A t \in TaskIds :
        /\ tasks[t].calls <= 1
        /\ tasks[t].outcome = "err" =>
               /\ tasks[t].pc = "done"
               /\ sent[t] = << Privmsg(tasks[t].resp_target, "error") >>
               /\ \A ci \in TurnsOfLine(t) : inner[ci[1]][ci[2]].k = 0

C9_Witness ==
    \E t \in TaskIds : tasks[t].outcome = "err" /\ tasks[t].inst.save /\ TurnsOfLine(t) # {}

\* C10: when the upload or the audio synthesis fails while the reply is
\* routed, a message naming the failure is sent to the response target.
C10_RouteFailureReported ==
    \A t \in TaskIds :
        tasks[t].outcome = "route_err" =>
            \E i \in 1..Len(sent[t]) : sent[t][i] = Privmsg(tasks[t].resp_target, "error")

\* the line in hand needs nothing more from the event loop
Handled == pc \in {"recv", "quit"}

C12_AdminShortCircuits ==
    [][ (n' = n + 1 /\ ~Ignored(cur') /\ Admin(cur')) =>
          /\ pc' \in {"recv", "quit"}
          /\ UNCHANGED <<inner, files, lock, for_chat, readAt>>
          /\ tasks'[n'] = NoTask
    ]_vars

\* a command of the owner on a channel that holds Turns was answered
C12_Witness ==
    /\ n > 0 /\ Admin(cur) /\ Captures(cur)
    /\ cur.kind = "echo"
    /\ pc = "recv"
    /\ sent[n] # << >>
    /\ Stored # {}

\* C13: a line of an ignored sender sends nothing, changes neither the
\* store nor the temperature and spawns nothing, whatever its text and also
\* when the sender is captured.
C13_IgnoredNoEffect ==
    [][ (n' > 0 /\ cur'.nick \in BOTS_TO_IGNORE) =>
          /\ pc' = "recv"
          /\ sent'[n'] = << >>
          /\ tasks'[n'] = NoTask
          /\ n' = n + 1 => UNCHANGED <<inner, files, lock, for_chat, readAt, TEMPERATURE>>
    ]_vars

\* a directive of a sender who is both ignored and captured was taken
C13_Witness ==
    /\ n > 0 /\ cur.nick \in BOTS_TO_IGNORE /\ Captures(cur)
    /\ cur.kind = "chat"
    /\ pc = "recv"

\* a line that is neither ignored, nor a directive, nor a command
PassiveLine(l) == ~Ignored(l) /\ l.kind # "chat" /\ ~Admin(l)

\* C14: once the loop has finished a line that is neither a directive nor
\* a command, the line is in the store exactly when its target is a channel
\* and its sender is captured; nothing was sent for it and no task runs
\* for it.
C14_PassiveCapture ==
    (n > 0 /\ pc = "recv" /\ PassiveLine(cur)) =>
        /\ Captures(cur) <=> TurnsOfLine(n) # {}
        /\ sent[n] = << >>
        /\ tasks[n] = NoTask

\* C15: a clear empties the sequence of a known channel, does nothing for
\* an unknown one (no entry appears) and leaves every other channel as it
\* was.
C15_ClearFrame ==
    [][ (pc = "clear" /\ pc' \notin {"clear", "crashed"}) =>
          LET c == response_target(cur.target, cur.nick)
          IN  /\ DOMAIN inner' = DOMAIN inner
              /\ \A d \in DOMAIN inner : inner'[d] = IF d = c THEN << >> ELSE inner[d]
    ]_vars

\* a channel whose file still shows Turns was cleared
C15_Witness ==
    /\ cur.kind = "clearctx"
    /\ pc \notin {"clear", "crashed"}
    /\ sent[n] # << >>
    /\ "#a" \in DOMAIN inner /\ inner["#a"] = << >>
    /\ "#a" \in DOMAIN files /\ files["#a"] # << >>

\* C16: when a mutating operation ends (an insert whose write succeeded, a
\* clear of a channel that has a file), the file of its channel holds the
\* channel's sequence.
C16_SinkMatchesStore ==
    [][ /\ (pc = "um_write" /\ pc' # "um_write" /\ files' # files) =>
              files'[cur.target] = inner'[cur.target]
        /\ \A t \in TaskIds :
              (tasks[t].pc = "sm_write" /\ tasks'[t].pc # "sm_write" /\ files' # files) =>
                  files'[tasks[t].target] = inner'[tasks[t].target]
        /\ (pc = "clear" /\ pc' \notin {"clear", "crashed"}) =>
              LET c == response_target(cur.target, cur.nick)
              IN  (c \in DOMAIN inner' /\ c \in DOMAIN files') => files'[c] = inner'[c]
    ]_vars

\* C18: a read changes neither the store nor the files; the image parts
\* that decay removed from a returned Turn are still in the stored Turn.
C18_ReadLeavesStore ==
    [][ (pc = "read" /\ pc' = "dispatch") => UNCHANGED <<inner, files>> ]_vars

\* a read returned a Turn without the image part that the store still has
C18_Witness ==
    /\ pc = "dispatch"
    /\ \E i \in 1..Len(for_chat) :
          /\ for_chat[i].imgs = 0
          /\ \E j \in 1..Len(inner[cur.target]) :
                /\ inner[cur.target][j].seq = for_chat[i].seq
                /\ inner[cur.target][j].imgs = 1

\* C17: insert_usermsg appends exactly one Turn of the sender; its content
\* is the tagged text followed by one image part for each https:// word
\* whose probe answered with an image type, in the order of the words; a
\* probe that fails or names another type only leaves its URL out.
C17_InsertUserTurn ==
    ret.fn = "extract" =>
        LET Keep(w) == /\ w \in {UrlA, UrlB}
                       /\ arg.probe[w].ok
                       /\ arg.probe[w].ct = "image/png"
            new == ret.list[Len(ret.list)]
        IN  /\ Len(ret.list) = Len(arg.before) + 1
            /\ SubSeq(ret.list, 1, Len(arg.before)) = arg.before
            /\ new.msg.role = "user"
            /\ new.msg.name = arg.sender
            /\ new.msg.text = [sender |-> arg.sender, message |-> arg.message]
            /\ new.msg.images = SelectSeq(arg.words, Keep)

\* two URLs, the first not an image or unreachable, the second an image
C17_Witness ==
    /\ ret.fn = "extract"
    /\ arg.words = << UrlA, UrlB >>
    /\ ~(arg.probe[UrlA].ok /\ arg.probe[UrlA].ct = "image/png")
    /\ ret.list[Len(ret.list)].msg.images = << UrlB >>

\* the line begins, after leading whitespace, with the command word
BeginsWithCommand(line) ==
    \E i \in 1..Len(line) :
        /\ \A j \in 1..(i - 1) : IsSpace(line[j])
        /\ i + Len(CommandWord) - 1 <= Len(line)
        /\ SubSeq(line, i, i + Len(CommandWord) - 1) = CommandWord

\* the line begins with the agent's name and a colon or a comma
BeginsWithAddress(line) ==
    /\ Len(line) > Len(BotNameChars)
    /\ SubSeq(line, 1, Len(BotNameChars)) = BotNameChars
    /\ line[Len(BotNameChars) + 1] \in {":", ","}

\* C19: a line that neither begins (after trimming) with the command word
\* nor begins with the agent's address yields no directive.
C19_NoTriggerNoDirective ==
    (ret.fn = "parse" /\ ~BeginsWithCommand(arg.line) /\ ~BeginsWithAddress(arg.line)) =>
        ~ret.some

\* the address after a leading space is not a trigger
C19_Witness ==
    /\ ret.fn = "parse"
    /\ ~ret.some
    /\ arg.line # << >> /\ arg.line[1] = " "
    /\ BeginsWithAddress(Tail(arg.line))

\* the positions of the option separators in a block, and its k-th token
SepsIn(block) == { i \in 1..Len(block) : block[i] \in {":", ",", "/"} }

TokenOf(block, k) ==
    LET P == SepsIn(block)
        from == IF k = 1 THEN 0
                ELSE CHOOSE i \in P : Cardinality({ j \in P : j <= i }) = k - 1
        to == IF k = Cardinality(P) + 1 THEN Len(block) + 1
              ELSE CHOOSE i \in P : Cardinality({ j \in P : j <= i }) = k
    IN  SubSeq(block, from + 1, to - 1)

\* the line without the whitespace around it
Trimmed(line) ==
    LET ns == { i \in 1..Len(line) : ~IsSpace(line[i]) }
    IN  IF ns = {} THEN << >>
        ELSE SubSeq(line, CHOOSE i \in ns : \A j \in ns : i <= j,
                          CHOOSE i \in ns : \A j \in ns : i >= j)

\* the command word directly followed by / or :
BlockForm(line) ==
    LET t == Trimmed(line)
    IN  /\ Len(t) > Len(CommandWord)
        /\ SubSeq(t, 1, Len(CommandWord)) = CommandWord
        /\ t[Len(CommandWord) + 1] \in {"/", ":"}

\* C20: for a line whose command word is directly followed by / or :, the
\* characters up to the first space are the option block, every token of
\* the block between :, , and / is applied in turn, and the message is the
\* trimmed rest of the line after the block, empty if there is none.
C20_OptionBlock ==
    (ret.fn = "parse" /\ BlockForm(arg.line)) =>
        LET t == Trimmed(arg.line)
            r == SubSeq(t, Len(CommandWord) + 2, Len(t))
            sp == { i \in 1..Len(r) : r[i] = " " }
            p == IF sp = {} THEN Len(r) + 1 ELSE CHOOSE i \in sp : \A j \in sp : i <= j
            block == SubSeq(r, 1, p - 1)
            tokens == [k \in 1..(Cardinality(SepsIn(block)) + 1) |-> TokenOf(block, k)]
            opts == update_all(default(<< >>, TEMPERATURE), tokens)
        IN  /\ ret.some
            /\ ret.inst = [opts EXCEPT !.msg = Trimmed(SubSeq(r, p + 1, Len(r)))]

\* a block of two tokens split at a slash, both applied, before a message
C20_Witness ==
    /\ ret.fn = "parse"
    /\ BlockForm(arg.line)
    /\ "/" \in { arg.line[i] : i \in 1..Len(arg.line) }
    /\ ~ret.inst.save
    /\ ret.inst.tts
    /\ ret.inst.msg = <<"a", " ", " ", "b">>

\* the command word followed by something that does not open a block
DashForm(line) ==
    LET t == Trimmed(line)
    IN  /\ Len(t) > Len(CommandWord)
        /\ SubSeq(t, 1, Len(CommandWord)) = CommandWord
        /\ t[Len(CommandWord) + 1] \notin {"/", ":"}

\* the positions at which a word of d starts, and those of the words that
\* do not begin with --
WordStarts(d) == { i \in 1..Len(d) : ~IsSpace(d[i]) /\ (i = 1 \/ IsSpace(d[i - 1])) }

PlainStarts(d) ==
    { i \in WordStarts(d) : ~(i < Len(d) /\ d[i] = "-" /\ d[i + 1] = "-") }

\* the word of d that starts at i
WordAt(d, i) ==
    LET ends == { j \in i..Len(d) : j = Len(d) \/ IsSpace(d[j + 1]) }
    IN  SubSeq(d, i, CHOOSE j \in ends : \A k \in ends : j <= k)

\* the words in front of position q, in order, without their --
RECURSIVE OptionsBefore(_, _, _)
OptionsBefore(d, q, i) ==
    IF i >= q \/ i > Len(d) THEN << >>
    ELSE IF i \in WordStarts(d)
         THEN << SubSeq(WordAt(d, i), 3, Len(WordAt(d, i))) >> \o OptionsBefore(d, q, i + 1)
         ELSE OptionsBefore(d, q, i + 1)

\* C21: in the -- form the leading words that begin with -- are the
\* options, whatever whitespace stands between the words, and the message
\* is the line from the first other word on (empty if there is none).
C21_DashForm ==
    (ret.fn = "parse" /\ DashForm(arg.line)) =>
        LET t == Trimmed(arg.line)
            d == SubSeq(t, Len(CommandWord) + 1, Len(t))
            ps == PlainStarts(d)
            q == IF ps = {} THEN Len(d) + 1 ELSE CHOOSE i \in ps : \A j \in ps : i <= j
            opts == update_all(default(<< >>, TEMPERATURE), OptionsBefore(d, q, 1))
        IN  /\ ret.some
            /\ ret.inst = [opts EXCEPT !.msg = Trimmed(SubSeq(d, q, Len(d)))]

\* C22: the message of a Directive is a piece of the line itself, the end
\* of the trimmed line, with nothing but leading and trailing whitespace
\* removed: every run of whitespace inside it is the line's own.
C22_WhitespaceVerbatim ==
    (ret.fn = "parse" /\ ret.some) =>
        LET t == Trimmed(arg.line)
            m == ret.inst.msg
        IN  /\ Len(m) <= Len(t)
            /\ m = SubSeq(t, Len(t) - Len(m) + 1, Len(t))
            /\ m = Trimmed(m)

C22_Witness ==
    /\ ret.fn = "parse"
    /\ ret.some
    /\ DashForm(arg.line)
    /\ ret.inst.tts
    /\ ret.inst.msg = <<"a", " ", " ", "b">>

\* C23: a line that begins with the agent's name and a colon or a comma
\* yields a Directive whose message is the trimmed rest of the line and whose
\* options are all the defaults, whatever option syntax the rest holds.
C23_AddressForm ==
    (ret.fn = "parse" /\ BeginsWithAddress(arg.line)) =>
        /\ ret.some
        /\ ret.inst.msg = Trimmed(SubSeq(arg.line, Len(BotNameChars) + 2, Len(arg.line)))
        /\ ret.inst.temp = F32(TEMPERATURE)
        /\ ret.inst.context
        /\ ret.inst.save
        /\ ~ret.inst.pastebin
        /\ ~ret.inst.tts

\* an address followed by --tts
C23_Witness ==
    /\ ret.fn = "parse"
    /\ BeginsWithAddress(arg.line)
    /\ ret.some
    /\ Len(ret.inst.msg) >= 5
    /\ SubSeq(ret.inst.msg, 1, 5) = <<"-", "-", "t", "t", "s">>

\* the key of an option token, whether it has a value, and the value
EqualsAt(cmd) == { i \in 1..Len(cmd) : cmd[i] = "=" }

HasValue(cmd) == EqualsAt(cmd) # {}

FirstEquals(cmd) == CHOOSE i \in EqualsAt(cmd) : \A j \in EqualsAt(cmd) : i <= j

KeyOf(cmd) == IF HasValue(cmd) THEN SubSeq(cmd, 1, FirstEquals(cmd) - 1) ELSE cmd

ValueOf(cmd) == SubSeq(cmd, FirstEquals(cmd) + 1, Len(cmd))

TrueWords == { <<"y">>, <<"y", "e", "s">>, <<"t", "r", "u", "e">>, <<"o", "n">> }

FalseWords == { <<"n">>, <<"n", "o">>, <<"f", "a", "l", "s", "e">>, <<"o", "f", "f">> }

\* the flag a boolean key names
FlagOf(key) ==
    CASE key = <<"c", "o", "n", "t", "e", "x", "t">> -> "context"
      [] key = <<"s", "a", "v", "e">> -> "save"
      [] key \in {<<"p", "a", "s", "t", "e">>, <<"p", "a", "s", "t", "e", "b", "i", "n">>} -> "pastebin"
      [] key = <<"t", "t", "s">> -> "tts"
      [] OTHER -> "none"

\* C24: a boolean key with a value that is none of y, yes, true, on, n, no,
\* false, off leaves its flag as it was.
C24_UnknownValueKeepsFlag ==
    (/\ ret.fn = "update"
     /\ HasValue(arg.cmd)
     /\ FlagOf(KeyOf(arg.cmd)) # "none"
     /\ ValueOf(arg.cmd) \notin TrueWords \cup FalseWords) =>
        ret.inst[FlagOf(KeyOf(arg.cmd))] = arg.inst[FlagOf(KeyOf(arg.cmd))]

\* C25: a bare paste, pastebin or tts sets its flag, a bare context or save
\* leaves its flag, and a boolean key with a recognized value sets its flag
\* to that value.
C25_BareAndRecognized ==
    (ret.fn = "update" /\ FlagOf(KeyOf(arg.cmd)) # "none") =>
        LET f == FlagOf(KeyOf(arg.cmd))
        IN  /\ (~HasValue(arg.cmd) /\ f \in {"pastebin", "tts"}) => ret.inst[f] = TRUE
            /\ (~HasValue(arg.cmd) /\ f \in {"context", "save"}) => ret.inst[f] = arg.inst[f]
            /\ (HasValue(arg.cmd) /\ ValueOf(arg.cmd) \in TrueWords) => ret.inst[f] = TRUE
            /\ (HasValue(arg.cmd) /\ ValueOf(arg.cmd) \in FalseWords) => ret.inst[f] = FALSE

\* a bare tts switches the audio flag on
C25_Witness ==
    /\ ret.fn = "update"
    /\ arg.cmd = <<"t", "t", "s">>
    /\ ~arg.inst.tts
    /\ ret.inst.tts

\* the numerals among the option values, in tenths
Numerals ==
    { <<<<"0", ".", "5">>, 5>>, <<<<"5", "5">>, 550>>, <<<<"3">>, 30>>, <<<<"-", "1">>, 0 - 10>>, <<<<"1">>, 10>> }

IsNumeral(v) == \E p \in Numerals : p[1] = v

NumeralValue(v) == (CHOOSE p \in Numerals : p[1] = v)[2]

Clamped(x) == IF x < MinTemp THEN MinTemp ELSE IF x > MaxTemp THEN MaxTemp ELSE x

InRange(t) == ~t.nan /\ ~t.inf /\ MinTemp <= t.v /\ t.v <= MaxTemp

\* C26: the temperature of an instruction stays within [0.0, 2.0]: temp=v
\* with a number v sets it to v clamped, and a temp token whose value is
\* missing, unparseable or not a number leaves it as it was.
C26_TempInRange ==
    (ret.fn = "update") =>
        /\ InRange(ret.inst.temp)
        /\ (KeyOf(arg.cmd) = <<"t", "e", "m", "p">>) =>
              IF HasValue(arg.cmd) /\ IsNumeral(ValueOf(arg.cmd))
              THEN ret.inst.temp = F32(Clamped(NumeralValue(ValueOf(arg.cmd))))
              ELSE IF HasValue(arg.cmd) /\ ValueOf(arg.cmd) = <<"i", "n", "f">>
              THEN TRUE
              ELSE ret.inst.temp = arg.inst.temp

\* the option tokens of a line, in the order they stand in it
BlockTokens(line) ==
    LET t == Trimmed(line)
        r == SubSeq(t, Len(CommandWord) + 2, Len(t))
        sp == { i \in 1..Len(r) : r[i] = " " }
        p == IF sp = {} THEN Len(r) + 1 ELSE CHOOSE i \in sp : \A j \in sp : i <= j
        block == SubSeq(r, 1, p - 1)
    IN  [k \in 1..(Cardinality(SepsIn(block)) + 1) |-> TokenOf(block, k)]

DashWords(line) ==
    LET t == Trimmed(line)
        d == SubSeq(t, Len(CommandWord) + 1, Len(t))
        ps == PlainStarts(d)
        q == IF ps = {} THEN Len(d) + 1 ELSE CHOOSE i \in ps : \A j \in ps : i <= j
    IN  OptionsBefore(d, q, 1)

OptionTokens(line) ==
    IF BlockForm(line) THEN BlockTokens(line)
    ELSE IF DashForm(line) THEN DashWords(line)
    ELSE << >>

\* the field a token gives a valid value to, and that value
Sets(tok, f) ==
    IF f = "temp"
    THEN KeyOf(tok) = <<"t", "e", "m", "p">> /\ HasValue(tok) /\ IsNumeral(ValueOf(tok))
    ELSE /\ FlagOf(KeyOf(tok)) = f
         /\ IF HasValue(tok) THEN ValueOf(tok) \in TrueWords \cup FalseWords
            ELSE f \in {"pastebin", "tts"}

ValueSet(tok, f) ==
    IF f = "temp" THEN F32(Clamped(NumeralValue(ValueOf(tok))))
    ELSE IF HasValue(tok) THEN ValueOf(tok) \in TrueWords ELSE TRUE

\* C27: of the tokens of one line that give a field a valid value, in the
\* block or in the -- form, the last one decides the field.
C27_LastWins ==
    (ret.fn = "parse" /\ ret.some) =>
        LET toks == OptionTokens(arg.line)
        IN  \A f \in {"context", "save", "pastebin", "tts", "temp"} :
                LET S == { k \in DOMAIN toks : Sets(toks[k], f) }
                IN  S # {} =>
                        ret.inst[f] = ValueSet(toks[CHOOSE k \in S : \A j \in S : j <= k], f)

\* save switched on and then off again, in the -- form
C27_Witness ==
    /\ ret.fn = "parse"
    /\ ret.some
    /\ DashForm(arg.line)
    /\ OptionTokens(arg.line) = << <<"s", "a", "v", "e", "=", "y", "e", "s">>, <<"s", "a", "v", "e", "=", "n", "o">> >>
    /\ ~ret.inst.save

\* temp given twice in a block
C27_WitnessBlock ==
    /\ ret.fn = "parse"
    /\ ret.some
    /\ BlockForm(arg.line)
    /\ OptionTokens(arg.line) = << <<"t", "e", "m", "p", "=", "5", "5">>, <<"t", "e", "m", "p", "=", "0", ".", "5">> >>
    /\ ret.inst.temp = F32(5)

\* a token whose key is none of the option keys
Unrecognized(tok) == tok # << >> /\ FlagOf(KeyOf(tok)) = "none" /\ KeyOf(tok) # <<"t", "e", "m", "p">>

\* the lines got from a -- form line by taking one unrecognized option word out
DashRemovals(line) ==
    LET t == Trimmed(line)
        d == SubSeq(t, Len(CommandWord) + 1, Len(t))
        ps == PlainStarts(d)
        q == IF ps = {} THEN Len(d) + 1 ELSE CHOOSE i \in ps : \A j \in ps : i <= j
        W == { i \in WordStarts(d) :
                 i < q /\ Unrecognized(SubSeq(WordAt(d, i), 3, Len(WordAt(d, i)))) }
    IN  { CommandWord \o SubSeq(d, 1, i - 1) \o SubSeq(d, i + Len(WordAt(d, i)), Len(d)) : i \in W }

\* the place in the block where its k-th token starts
TokenFrom(block, k) ==
    IF k = 1 THEN 1
    ELSE (CHOOSE i \in SepsIn(block) : Cardinality({ j \in SepsIn(block) : j <= i }) = k - 1) + 1

\* the lines got from a block form line by taking one unrecognized token out
BlockRemovals(line) ==
    LET t == Trimmed(line)
        r == SubSeq(t, Len(CommandWord) + 2, Len(t))
        sp == { i \in 1..Len(r) : r[i] = " " }
        p == IF sp = {} THEN Len(r) + 1 ELSE CHOOSE i \in sp : \A j \in sp : i <= j
        block == SubSeq(r, 1, p - 1)
        K == { k \in 1..(Cardinality(SepsIn(block)) + 1) : Unrecognized(TokenOf(block, k)) }
    IN  { SubSeq(t, 1, Len(CommandWord) + 1)
            \o SubSeq(block, 1, TokenFrom(block, k) - 1)
            \o SubSeq(block, TokenFrom(block, k) + Len(TokenOf(block, k)), Len(block))
            \o SubSeq(r, p, Len(r)) : k \in K }

Removals(line) ==
    IF BlockForm(line) THEN BlockRemovals(line)
    ELSE IF DashForm(line) THEN DashRemovals(line)
    ELSE {}

\* C28: a token with an unrecognized key does not prevent the Directive and
\* changes nothing: the line gives the Directive that the line without the
\* token gives.
C28_UnknownTokenRemovable ==
    (ret.fn = "parse" /\ Removals(arg.line) # {}) =>
        /\ ret.some
        /\ \A l \in Removals(arg.line) : get_chat_instruction(l, TEMPERATURE) = ret

\* C29: a line that is the command word alone, but for the whitespace
\* around it, yields the empty message, context and save on, pastebin and
\* tts off, and the temperature the process has at the time of the call.
C29_BareCommand ==
    [][(ret = NoRet /\ ret' # NoRet /\ arg.fn = "parse" /\ Trimmed(arg.line) = CommandWord) =>
          /\ ret'.some
          /\ ret'.inst = [msg |-> << >>, temp |-> F32(TEMPERATURE), context |-> TRUE,
                          save |-> TRUE, pastebin |-> FALSE, tts |-> FALSE]]_vars

\* the command word between whitespace, parsed after the temperature was set to 0.5
C29_Witness ==
    /\ ret.fn = "parse"
    /\ Trimmed(arg.line) = CommandWord
    /\ Len(arg.line) > Len(CommandWord)
    /\ TEMPERATURE = 5
    /\ ret.some
    /\ ret.inst.temp = F32(5)
    /\ ret.inst.msg = << >>

\* the finite numbers among the arguments of !set_temp, in tenths
SetTempNumbers == { <<"0.5", 5>>, <<"55", 550>>, <<"-1", 0 - 10>> }

IsSetTempNumber(b) == \E p \in SetTempNumbers : p[1] = b

SetTempNumber(b) == (CHOOSE p \in SetTempNumbers : p[1] = b)[2]

\* what a step may do to the temperature
TemperatureStep ==
    /\ (TEMPERATURE' # TEMPERATURE) =>
          /\ n' = n + 1
          /\ cur'.kind = "set_temp"
          /\ IsSetTempNumber(cur'.body)
    /\ (n' = n + 1 /\ cur'.kind = "set_temp" /\ cur'.nick \notin BOTS_TO_IGNORE) =>
          IF IsSetTempNumber(cur'.body)
          THEN TEMPERATURE' = Clamped(SetTempNumber(cur'.body))
          ELSE /\ TEMPERATURE' = TEMPERATURE
               /\ Len(sent'[n']) = 1
               /\ sent'[n'][1].kind \in {"parse_failed", "what"}

\* C30: the process-wide temperature is always within [0.0, 2.0]; it
\* changes only when a !set_temp line carries a finite number, and then to
\* that number clamped; a !set_temp line with any other argument leaves it
\* and is answered with an error reply.
C30_ProcessTemperature ==
    /\ [](MinTemp <= TEMPERATURE /\ TEMPERATURE <= MaxTemp)
    /\ [][TemperatureStep]_vars

\* !set_temp 55 stored as 2.0, then !set_temp inf refused
C30_Witness ==
    /\ n = 2
    /\ cur.kind = "set_temp"
    /\ cur.body = "inf"
    /\ TEMPERATURE = MaxTemp
    /\ sent[1] = << Privmsg("#a", "temp_set") >>
    /\ sent[2] = << Privmsg("#a", "what") >>

\* the line has a token that gives the temperature a value
HasTempOption(line) ==
    \E k \in DOMAIN OptionTokens(line) : Sets(OptionTokens(line)[k], "temp")

CellStep ==
    /\ (arg'.fn = "cell") => load(arg'.storage) = TEMPERATURE'
    /\ (arg.fn = "cell" /\ ret = NoRet /\ ret' # NoRet /\ ~HasTempOption(arg.line)) =>
          (ret'.some /\ ret'.inst.temp = F32(TEMPERATURE))
    /\ (ret # NoRet) => ret' = ret

LineWeight(len) == 1 + ((len + LineUnit - 1) \div LineUnit)

RECURSIVE Weight(_, _)
Weight(lines, k) == IF k = 0 THEN 0 ELSE Weight(lines, k - 1) + LineWeight(lines[k])

\* C32: the weight of a reply is the sum of 1 + ceil(length / 150) over its
\* lines; the reply is sent whole when its weight is at most 8, and
\* otherwise the lines that fit in 8 are sent and then one message with
\* the link.
C32_WeightBudget ==
    (ret.fn = "send") =>
        LET lines == arg.lines
            fit == { k \in 0..Len(lines) : Weight(lines, k) <= LineBudget }
            last == CHOOSE k \in fit : \A j \in fit : j <= k
        IN  IF Weight(lines, Len(lines)) <= LineBudget
            THEN ret.out = [k \in 1..Len(lines) |-> [kind |-> "line", idx |-> k]]
            ELSE /\ Len(ret.out) = last + 1
                 /\ \A k \in 1..last : ret.out[k] = [kind |-> "line", idx |-> k]
                 /\ ret.out[last + 1].kind \in {"link", "upload_error"}

\* the events at which the loop breaks: an ERROR frame, the owner's quit
Stopping(l) == l.kind = "error" \/ (l.kind = "quit" /\ l.nick = Owner)

Stopped == n >= 1 /\ Stopping(cur)

\* C33: once the owner's quit or an ERROR frame was received the loop takes
\* no further event, changes no store, dispatches nothing and sends
\* nothing more, and the quit message was sent.
C33_StopsAfterQuit ==
    /\ [](Stopped => sent[n] = << Privmsg("", "quit") >>)
    /\ [][Stopped => UNCHANGED <<n, cur, pc, inner, files, for_chat, tasks, sent, TEMPERATURE>>]_vars

\* an ERROR frame ended a run in which a line was captured before
C33_Witness ==
    /\ Stopped
    /\ cur.kind = "error"
    /\ n = 2
    /\ "#a" \in DOMAIN inner
    /\ sent[n] = << Privmsg("", "quit") >>

\* the log new is the log old without some Turns of its front and with
\* Turns that old did not hold at its back
FrontOffBackOn(old, new) ==
    \E k \in 0..Len(old) :
        /\ Len(new) >= Len(old) - k
        /\ SubSeq(new, 1, Len(old) - k) = SubSeq(old, k + 1, Len(old))
        /\ \A i \in (Len(old) - k + 1)..Len(new) :
              \A j \in 1..Len(old) : new[i].seq # old[j].seq

LogStep ==
    \A c \in DOMAIN inner : c \in DOMAIN inner' /\ FrontOffBackOn(inner[c], inner'[c])

DatesAscend ==
    \A c \in DOMAIN inner :
        \A i, j \in 1..Len(inner[c]) : i < j => inner[c][i].date <= inner[c][j].date

\* C34: a channel's log changes only by Turns put on at its back and Turns
\* taken off its front (all of them, by a clear); the Turns that stay keep
\* their order and their timestamp, role and content, and the timestamps
\* ascend from front to back.
C34_LogDiscipline ==
    /\ []DatesAscend
    /\ [][LogStep]_vars

\* the Turn of the first line was evicted when the Turns of the second were stored
C34_Witness ==
    /\ "#a" \in DOMAIN inner
    /\ Len(inner["#a"]) = 2
    /\ inner["#a"][1].line = 2
    /\ inner["#a"][2].line = 2
    /\ inner["#a"][1].date > Hours(MaxAgeHours)
    /\ nseq >= 3

\* who is between taking the lock of an insert and dropping it
Inserting ==
    (IF pc \in {"um_probe", "um_write"} THEN {0} ELSE {})
    \cup { t \in TaskIds : tasks[t].pc \in {"sm_push", "sm_write"} }

\* no Turn stands twice in the store
NoDuplicate ==
    \A a, b \in Stored : inner[a[1]][a[2]].seq = inner[b[1]][b[2]].seq => a = b

\* how often the k-th Turn of line l stands in a log
Times(list, l, k) == Cardinality({ i \in 1..Len(list) : list[i].line = l /\ list[i].k = k })

\* an insert that ends has put each of its Turns into its channel's log once
InsertLands ==
    /\ (pc = "um_write" /\ pc' # "um_write") => Times(inner'[cur.target], n, 0) = 1
    /\ \A t \in TaskIds :
          (tasks[t].pc = "sm_write" /\ tasks'[t].pc # "sm_write") =>
              \A k \in 1..Len(tasks[t].resp) : Times(inner'[tasks[t].target], t, k) = 1

\* a stored Turn stays, once, unless a clear takes it; no time passes here,
\* so nothing is evicted
TurnsStay ==
    \A ci \in Stored :
        \/ pc = "clear"
        \/ Times(inner'[ci[1]], inner[ci[1]][ci[2]].line, inner[ci[1]][ci[2]].k) = 1

\* C35: whatever the interleaving of the loop and the tasks, at most one of
\* them is inside an insert, and an insert that ends has put each of its
\* Turns into the log of its channel exactly once, where it stays until it
\* is evicted or the channel is cleared.
C35_OneWriterNoLoss ==
    /\ [](Cardinality(Inserting) <= 1 /\ NoDuplicate)
    /\ [][InsertLands /\ TurnsStay]_vars

\* two tasks and the loop have all inserted: both lines' messages and both
\* responses are in the log
C35_Witness ==
    /\ n = 2
    /\ pc = "recv"
    /\ \A t \in 1..2 : /\ tasks[t].pc = "done"
                        /\ tasks[t].outcome = "ok"
                        /\ tasks[t].inst.save
                        /\ Cardinality(TurnsOfLine(t)) >= 2

\* a task waits for the lock while the loop is inside its insert
C35_Contended ==
    /\ pc = "um_write"
    /\ \E t \in TaskIds : tasks[t].pc = "sm_lock"

\* C36: no response of the completion service and no failure of the store
\* (a file that cannot be written, a lock poisoned by a failed task) stops
\* the loop: its store operations go on in memory and it takes the next line.
C36_LoopSurvives == pc # "crashed"

\* the lines whose step in the loop inserts their message
InsertsMessage(l) ==
    \/ l.kind = "chat" /\ l.inst.save /\ l.inst.msg # ""
    \/ /\ l.kind \in {"plain", "clearctx"}
       /\ starts_with_hash(l.target)
       /\ l.nick \in OPT_IN_ALL_CAPTURE

\* the next line is taken only when the loop is through with the one before
TakenInTurn ==
    (n' = n + 1) =>
        /\ pc = "recv"
        /\ lock # ByMain
        /\ for_chat = << >>
        /\ (n >= 1 /\ InsertsMessage(cur)) => Times(inner[cur.target], n, 0) = 1
        /\ (n >= 1 /\ cur.kind = "chat") => tasks[n].pc # "none"

\* the user Turns of a log stand in the order of their lines
UserTurnsInLineOrder ==
    \A c \in DOMAIN inner :
        \A i, j \in 1..Len(inner[c]) :
            (i < j /\ inner[c][i].k = 0 /\ inner[c][j].k = 0) =>
                inner[c][i].line < inner[c][j].line

\* C37: lines are handled in the order they arrive: the loop's work on a
\* line, its insert included, is done before the next line is taken, so
\* the user Turns of a channel stand in arrival order whatever the order
\* in which the tasks end.
C37_ArrivalOrder ==
    /\ []UserTurnsInLineOrder
    /\ [][TakenInTurn]_vars

\* the task of the second line has stored its response while the task of
\* the first is still calling; the user Turns stand first, second
C37_Witness ==
    /\ n = 2
    /\ tasks[1].pc = "calling"
    /\ tasks[2].pc = "done"
    /\ "#a" \in DOMAIN inner
    /\ Len(inner["#a"]) >= 3
    /\ inner["#a"][1].line = 1 /\ inner["#a"][1].k = 0
    /\ inner["#a"][2].line = 2 /\ inner["#a"][2].k = 0
    /\ inner["#a"][3].line = 2 /\ inner["#a"][3].k = 1

\* C38: at the moment the loop is through with a !clearctx line, the log
\* that the directives of its conversation read (the one kept under the
\* line's target) is empty, whoever sent the line.
C38_ClearLeavesEmpty ==
    [][(cur.kind = "clearctx" /\ pc \in {"clear", "um_write"} /\ pc' = "recv") =>
          (cur.target \notin DOMAIN inner' \/ inner'[cur.target] = << >>)]_vars

\* the conversation a directive belongs to: its channel, or in a private
\* query the user who sent it
ConversationOf(t) == response_target(tasks[t].target, tasks[t].nick)

\* C39: every stored Turn that a completion call carries was put in the
\* store by a directive of the same conversation or by the response to
\* one: the same channel, or in a private query the same user.
C39_Isolated ==
    \A t \in TaskIds :
        tasks[t].pc = "calling" =>
            \A i \in 1..Len(tasks[t].for_chat) :
                LET l == tasks[t].for_chat[i].line
                IN  tasks[l].pc # "none" => ConversationOf(l) = ConversationOf(t)

\* the loop takes a line of a sender other than the owner: it stays in the
\* loop, sends no quit, join or part, and treats a !quit, !join or !part
\* as a line that is no command: captured when its sender opted in on a
\* channel, otherwise passed over, with no task and no reply
NotOwnerStep ==
    (n' = n + 1 /\ cur'.kind # "error" /\ cur'.nick # Owner) =>
        /\ pc' # "quit"
        /\ \A i \in 1..Len(sent'[n']) : sent'[n'][i].kind \notin {"quit", "join", "part"}
        /\ cur'.kind \in {"quit", "join", "part"} =>
              /\ pc' = IF Captures(cur') /\ cur'.nick \notin BOTS_TO_IGNORE
                       THEN "um_lock" ELSE "recv"
              /\ sent'[n'] = << >>
              /\ tasks'[n'] = NoTask
              /\ UNCHANGED <<TEMPERATURE, inner>>

\* C40: only the owner controls the bot's life: a line of any other sender
\* never makes the loop quit, join or part, and is handled as an ordinary
\* line.
C40_OwnerOnly == [][NotOwnerStep]_vars

\* bob's !quit has been taken and the loop waits for the next line
C40_Witness ==
    /\ n >= 1
    /\ cur.kind = "quit"
    /\ cur.nick = "bob"
    /\ pc = "recv"
    /\ sent[n] = << >>

====
